---------------------------- MODULE Spec2Model ----------------------------
(***************************************************************************)
(* Recommendation::FeaturesEngine of LMS: the similarity search over the   *)
(* SOM grid (FeaturesEngine.hpp) and the engine's load / cancel lifecycle; *)
(* Remote::Server::MediaRequestHandler (transcode sessions, specification  *)
(* SpecMedia) and Auth::AuthTokenService (single-use tokens under          *)
(* concurrent calls, specification SpecAuth).                              *)
(*                                                                         *)
(* An optional value (std::optional, a std::unique_ptr that may be null)   *)
(* is a sequence of length 0 or 1.  A SOM::Position is a pair <<x, y>>.    *)
(* A reference vector is one number; the distance of two reference         *)
(* vectors is the absolute difference.                                     *)
(***************************************************************************)
EXTENDS Integers, Sequences, FiniteSets

(* ------------------------------ bounds -------------------------------- *)
Width == 2
Height == 2
NumTracks == 4
MaxRef == 3
MaxSeeds == 2
MaxCount == 5
MaxLoads == 2
\* The tracks the feature provider may return none for in one run, short of all.
MaxMissing == 1
\* MediaRequestHandler: the tracks of the database, the bytes the transcoder
\* of track 1 outputs, the bytes one AvConvTranscoder::process call outputs
\* at most, the largest requested_data_size, the transcoders constructed in
\* one run, a bitrate a request may carry, and the member _maxPartSize.
NumMediaTracks == 2
StreamLen == 3
MaxChunk == 2
MaxRequested == 3
MaxSessions == 2
RequestBitrate == 64000
MaxPartSize == 2
\* AuthTokenService: the processAuthToken calls of one run, the tokens
\* createAuthToken creates, the client addresses, the last instant of the
\* clock, the bad attempts after which LoginThrottler throttles an address,
\* and the token count from which createAuthToken purges expired tokens
\* (50 in the code).
NumCalls == 3
NumTokens == 2
NumClients == 2
MaxTime == 1
MaxBadAttempts == 2
PurgeCount == 2

(* ------------------------------ basics -------------------------------- *)
None == << >>

Some(x) == << x >>

Range(s) == { s[i] : i \in 1..Len(s) }

Abs(n) == IF n < 0 THEN -n ELSE n

Cells == (0..(Width - 1)) \X (0..(Height - 1))

Tracks == 1..NumTracks

\* The database's track -> release relation: two tracks per release.
ReleaseOf(t) == (t + 1) \div 2

Releases == { ReleaseOf(t) : t \in Tracks }

Categories == {"track", "release"}

IdsOf(cat) == IF cat = "track" THEN Tracks ELSE Releases

\* Sequences over S of length at most n.
SeqUpTo(S, n) == UNION { [1..k -> S] : k \in 0..n }

\* The ids of a set in ascending order.
RECURSIVE Ascending(_)
Ascending(S) ==
    IF S = {} THEN << >>
    ELSE LET m == CHOOSE x \in S : \A y \in S : x <= y
         IN  << m >> \o Ascending(S \ {m})

\* Row-major rank of a cell, the order in which the grid is walked.
CellRank(p) == p[2] * Width + p[1]

(* --------------------------- Utils helpers ---------------------------- *)
push_back_if_not_present(v, x) == IF x \in Range(v) THEN v ELSE Append(v, x)

(* ---------------------------- SOM::Network ---------------------------- *)
Networks == [Cells -> 0..MaxRef]

Adjacent(p, q) ==
    \/ p[1] = q[1] /\ Abs(p[2] - q[2]) = 1
    \/ p[2] = q[2] /\ Abs(p[1] - q[1]) = 1

computeRefVectorsDistance(net, p, q) == Abs(net[p] - net[q])

\* The grid's edges, each once.
Edges == { e \in Cells \X Cells : Adjacent(e[1], e[2]) /\ CellRank(e[1]) < CellRank(e[2]) }

\* The median (the lower one of an even number) of the distances between
\* grid-adjacent reference vectors.
computeRefVectorsDistanceMedian(net) ==
    LET d(e) == computeRefVectorsDistance(net, e[1], e[2])
        k    == (Cardinality(Edges) + 1) \div 2
    IN  CHOOSE v \in { d(e) : e \in Edges } :
            /\ Cardinality({ e \in Edges : d(e) < v }) < k
            /\ Cardinality({ e \in Edges : d(e) <= v }) >= k

\* Mutant: a position of `from` may be a candidate too.
CandidatesAmongAll(net, from, maxDistance4) ==
    { e \in Range(from) \X Cells :
        /\ Adjacent(e[1], e[2])
        /\ 4 * computeRefVectorsDistance(net, e[1], e[2]) <= maxDistance4 }

\* The pairs <<p, q>>: q is adjacent to the position p of `from`, is not in
\* `from`, and its reference vector is within maxDistance of p's.
\* maxDistance4 is four times the maximal distance (0.75 * median = 3 * median / 4).
Candidates(net, from, maxDistance4) ==
    { e \in Range(from) \X (Cells \ Range(from)) :
        /\ Adjacent(e[1], e[2])
        /\ 4 * computeRefVectorsDistance(net, e[1], e[2]) <= maxDistance4 }

\* The nearest candidate position, none when there is no candidate; of equally
\* near ones the first in grid order.
getClosestRefVectorPosition(net, from, maxDistance4) ==
    LET cand == Candidates(net, from, maxDistance4)
        d(e) == computeRefVectorsDistance(net, e[1], e[2])
        near == { e[2] : e \in { f \in cand : \A g \in cand : d(f) <= d(g) } }
    IN  IF cand = {} THEN None
        ELSE Some(CHOOSE q \in near : \A r \in near : CellRank(q) <= CellRank(r))

\* The cell whose reference vector is closest to a sample.
ClosestCell(net, sample) ==
    LET best == { c \in Cells : \A o \in Cells : Abs(net[c] - sample) <= Abs(net[o] - sample) }
    IN  CHOOSE c \in best : \A o \in best : CellRank(c) <= CellRank(o)

(* ----------------------- FeaturesEngine: search ----------------------- *)
RECURSIVE AppendAllIfNotPresent(_, _)
AppendAllIfNotPresent(v, xs) ==
    IF xs = << >> THEN v
    ELSE AppendAllIfNotPresent(push_back_if_not_present(v, Head(xs)), Tail(xs))

\* Mutant: an id without entry is looked up all the same and yields the
\* first cell of the grid.
RECURSIVE MatchingWithoutSkip(_, _)
MatchingWithoutSkip(seeds, objectPositions) ==
    IF seeds = << >> THEN << >>
    ELSE LET rest == MatchingWithoutSkip(SubSeq(seeds, 1, Len(seeds) - 1), objectPositions)
             id   == seeds[Len(seeds)]
         IN  IF id \notin DOMAIN objectPositions
             THEN push_back_if_not_present(rest, << 0, 0 >>)
             ELSE AppendAllIfNotPresent(rest, objectPositions[id])

\* The positions of the ids that have an entry, each once, in seed order.
RECURSIVE MatchingPositions(_, _)
MatchingPositions(seeds, objectPositions) ==
    IF seeds = << >> THEN << >>
    ELSE LET rest == MatchingPositions(SubSeq(seeds, 1, Len(seeds) - 1), objectPositions)
             id   == seeds[Len(seeds)]
         IN  IF id \notin DOMAIN objectPositions THEN rest
             ELSE AppendAllIfNotPresent(rest, objectPositions[id])

getMatchingRefVectorsPosition(seeds, objectPositions) ==
    MatchingPositions(seeds, objectPositions)

\* Mutant: only the position added last is looked up.
getObjectsIdsOfLast(positions, objectMatrix) ==
    IF positions = << >> THEN << >>
    ELSE AppendAllIfNotPresent(<< >>, objectMatrix[positions[Len(positions)]])

\* The ids stored in the cells of `positions`, each once, in cell order.
RECURSIVE getObjectsIds(_, _)
getObjectsIds(positions, objectMatrix) ==
    IF positions = << >> THEN << >>
    ELSE AppendAllIfNotPresent(
            getObjectsIds(SubSeq(positions, 1, Len(positions) - 1), objectMatrix),
            objectMatrix[positions[Len(positions)]])

\* Mutant: nothing is erased.
RemoveNothing(closestObjectIds, seeds) == closestObjectIds

\* The erase / remove_if of the ids that are in the input.
RemoveInput(closestObjectIds, seeds) ==
    SelectSeq(closestObjectIds, LAMBDA id : id \notin Range(seeds))

\* Mutant: the search goes on with no position at all.
NeverNothing(positions) == FALSE

\* if (searchedRefVectorsPosition.empty()) return res;
NothingToSearch(positions) == positions = << >>

\* Mutant: a maxCount of 0 is taken for no limit.
ReachedUnlessZero(r, n) == n > 0 /\ Len(r) = n

\* Mutant: the size is compared one too early.
ReachedEarly(r, n) == Len(r) + 1 = n

\* Mutant: the size is compared one too late.
ReachedAfter(r, n) == Len(r) = n + 1

\* if (res.size() == maxCount) break;
Reached(r, n) == Len(r) = n

\* Mutant: the whole median is the bound.
WholeMedian4(median) == 4 * median

\* _networkRefVectorsDistanceMedian * 0.75, the bound of every request to the
\* network, times four.
MaxDistance4(median) == 3 * median

\* Mutant: a new id is put in front.
AppendFront(r, id) == IF id \in Range(r) THEN r ELSE << id >> \o r

\* Mutant: a plain push_back.
AppendAlways(r, id) == Append(r, id)

\* Utils::push_back_if_not_present(res, id) of the for loop.
AppendResult(r, id) == push_back_if_not_present(r, id)

\* The for loop over closestObjectIds, run to its end.
RECURSIVE AppendLoop(_, _, _)
AppendLoop(r, closest, n) ==
    IF closest = << >> \/ Reached(r, n) THEN r
    ELSE AppendLoop(AppendResult(r, Head(closest)), Tail(closest), n)

\* The while loop, run to its end, with the network and the median of the engine.
RECURSIVE SearchLoop(_, _, _, _, _, _, _)
SearchLoop(r, searched, seeds, objectMatrix, n, net, median) ==
    LET closest == RemoveInput(getObjectsIds(searched, objectMatrix), seeds)
        r2      == AppendLoop(r, closest, n)
        pos     == getClosestRefVectorPosition(net, searched, MaxDistance4(median))
    IN  IF Reached(r2, n) THEN r2
        ELSE IF pos = None THEN r2
        ELSE SearchLoop(r2, push_back_if_not_present(searched, pos[1]),
                        seeds, objectMatrix, n, net, median)

\* getSimilarObjects as one function of its arguments and of the members it reads.
getSimilarObjects(seeds, objectMatrix, objectPositions, n, net, median) ==
    LET searched == getMatchingRefVectorsPosition(seeds, objectPositions)
    IN  IF NothingToSearch(searched) THEN << >>
        ELSE SearchLoop(<< >>, searched, seeds, objectMatrix, n, net, median)

(* -------------------- FeaturesEngine: index building ------------------ *)
\* The features the database holds for a track.
DbFeature(t) == t \div 2

\* What the feature provider may return for the tracks of the database: the
\* features of the tracks it does not return none for.
FeatureSets == { [t \in F |-> DbFeature(t)] : F \in SUBSET Tracks }

\* Mutant: a track without features is put at the first cell.
PositionsForAllTracks(net, features) ==
    [t \in Tracks |-> IF t \in DOMAIN features
                      THEN << ClosestCell(net, features[t]) >>
                      ELSE << << 0, 0 >> >>]

\* The features a load that succeeds has got: all but a few tracks'.
InstallableFeatureSets ==
    { f \in FeatureSets : Cardinality(Tracks \ DOMAIN f) <= MaxMissing }

\* TrackPositions: every track with features at the cell closest to its sample.
ComputeTrackPositions(net, features) ==
    [t \in DOMAIN features |-> << ClosestCell(net, features[t]) >>]

\* Mutant: an object is stored in the cell of its first position only.
BuildMatrixFirstOnly(objectPositions) ==
    [c \in Cells |->
        SelectSeq(Ascending(DOMAIN objectPositions),
                  LAMBDA id : c = objectPositions[id][1])]

\* ObjectMatrix from ObjectPositions: cell -> the ids positioned there, in id order.
BuildMatrix(objectPositions) ==
    [c \in Cells |->
        SelectSeq(Ascending(DOMAIN objectPositions),
                  LAMBDA id : c \in Range(objectPositions[id]))]

RECURSIVE ConcatPositions(_, _)
ConcatPositions(ts, tracksPosition) ==
    IF ts = << >> THEN << >>
    ELSE AppendAllIfNotPresent(
            ConcatPositions(SubSeq(ts, 1, Len(ts) - 1), tracksPosition),
            tracksPosition[ts[Len(ts)]])

\* ReleasePositions: a release is at every position of its tracks.
BuildReleasePositions(tracksPosition) ==
    [r \in { ReleaseOf(t) : t \in DOMAIN tracksPosition } |->
        ConcatPositions(Ascending({ t \in DOMAIN tracksPosition : ReleaseOf(t) = r }),
                        tracksPosition)]

\* load(session, network, tracksPosition): the snapshot built from a network and
\* the positions of the tracks, both indices of a category in the same pass.
BuildSnapshot(net, tracksPosition) ==
    [ network          |-> Some(net),
      median           |-> computeRefVectorsDistanceMedian(net),
      trackPositions   |-> tracksPosition,
      trackMatrix      |-> BuildMatrix(tracksPosition),
      releasePositions |-> BuildReleasePositions(tracksPosition),
      releaseMatrix    |-> BuildMatrix(BuildReleasePositions(tracksPosition)) ]

\* The members of a default-constructed engine: no network, empty maps, and
\* matrices without any cell.
NoSnapshot ==
    [ network          |-> None,
      median           |-> 0,
      trackPositions   |-> << >>,
      trackMatrix      |-> << >>,
      releasePositions |-> << >>,
      releaseMatrix    |-> << >> ]

(* ------------------------ FeaturesEngineCache ------------------------- *)
CacheVersion == 1

RefVectorDims == 1

CellOfRank(k) == CHOOSE c \in Cells : CellRank(c) = k

\* Mutant: the reference vectors are written column by column.
EncodeByColumns(net, tracksPosition) ==
    [ version |-> CacheVersion,
      dims    |-> RefVectorDims,
      width   |-> Width,
      height  |-> Height,
      refs    |-> [k \in 1..(Width * Height) |->
                     net[<< (k - 1) \div Height, (k - 1) % Height >>]],
      tracks  |-> [i \in 1..Cardinality(DOMAIN tracksPosition) |->
                     LET t == Ascending(DOMAIN tracksPosition)[i]
                     IN  << t, [j \in 1..Len(tracksPosition[t]) |-> CellRank(tracksPosition[t][j])] >>] ]

\* toCache / encode: the reference vectors row by row, and per track its id and
\* the ranks of its positions.
Encode(net, tracksPosition) ==
    [ version |-> CacheVersion,
      dims    |-> RefVectorDims,
      width   |-> Width,
      height  |-> Height,
      refs    |-> [k \in 1..(Width * Height) |-> net[CellOfRank(k - 1)]],
      tracks  |-> [i \in 1..Cardinality(DOMAIN tracksPosition) |->
                     LET t == Ascending(DOMAIN tracksPosition)[i]
                     IN  << t, [j \in 1..Len(tracksPosition[t]) |-> CellRank(tracksPosition[t][j])] >>] ]

\* Mutant: the blob is decoded whatever its version tag and dimensions.
DecodeUnchecked(blob, expectedDims) ==
    Some([ network |-> [c \in Cells |-> blob.refs[CellRank(c) + 1]],
           tracksPosition |->
               [t \in { blob.tracks[i][1] : i \in 1..Len(blob.tracks) } |->
                   LET e == CHOOSE i \in 1..Len(blob.tracks) : blob.tracks[i][1] = t
                   IN  [j \in 1..Len(blob.tracks[e][2]) |-> CellOfRank(blob.tracks[e][2][j])]] ])

\* decode: none (IncompatibleCache) unless the version tag and the dimensions match.
Decode(blob, expectedDims) ==
    IF \/ blob.version # CacheVersion
       \/ blob.dims # expectedDims
       \/ blob.width # Width
       \/ blob.height # Height
    THEN None
    ELSE Some([ network |-> [c \in Cells |-> blob.refs[CellRank(c) + 1]],
                tracksPosition |->
                    [t \in { blob.tracks[i][1] : i \in 1..Len(blob.tracks) } |->
                        LET e == CHOOSE i \in 1..Len(blob.tracks) : blob.tracks[i][1] = t
                        IN  [j \in 1..Len(blob.tracks[e][2]) |-> CellOfRank(blob.tracks[e][2][j])]] ])

\* Blobs left by another version or another feature configuration.
StaleBlobs ==
    { [ version |-> CacheVersion - 1, dims |-> RefVectorDims, width |-> Width,
        height |-> Height, refs |-> [k \in 1..(Width * Height) |-> 0], tracks |-> << >> ],
      [ version |-> CacheVersion, dims |-> RefVectorDims + 1, width |-> Width,
        height |-> Height, refs |-> [k \in 1..(Width * Height) |-> 0], tracks |-> << >> ] }

(* ------------------------------- state -------------------------------- *)
VARIABLES
    \* FeaturesEngine members
    loadCancelled, network, networkRefVectorsDistanceMedian,
    trackPositions, trackMatrix, releasePositions, releaseMatrix,
    \* the persisted cache
    cache,
    \* the load in progress: its place, its arguments and locals, its result
    loadPc, forceReload, loadIter, pending, loadResult, loads,
    \* the query in progress: its place, its arguments and locals
    qpc, qcat, ids, maxCount, res, searchedRefVectorsPosition, closestObjectIds,
    \* history: passes and network requests of the query, the members it read
    collected, asked, qSeen, qMixed,
    \* history: the members when the load started, cancel requests during it
    \* and whether the load found the flag of an earlier request set
    atLoadStart, cancelSeen, foundStale,
    \* the fraction last passed to the progress callback by the load
    progress,
    \* history: what the load found in the cache, the tracks its provider
    \* returned none for
    cacheAtStart, notProvided

VARIABLES
    \* MediaRequestHandler: the member _transcoder; the request last given to
    \* process, the response it filled and the value it returned
    transcoder, mediaRequest, mediaResponse, mediaResult,
    \* history: the transcoders constructed, the bytes of the parts returned
    \* since the transcoder was installed
    \* and whether constructing the transcoder threw in the last process call
    sessions, sent, threw

mediaVars ==
    << transcoder, mediaRequest, mediaResponse, mediaResult, sessions, sent, threw >>

VARIABLES
    \* the auth_token table, the secrets generated so far, the clock
    authTokens, generated, now,
    \* LoginThrottler: consecutive bad attempts per client address
    badAttempts,
    \* the processAuthToken calls: position, arguments, the local res, the
    \* result returned, and what the call did (history)
    calls

authVars == << authTokens, generated, now, badAttempts, calls >>

serviceVars == << mediaVars, authVars >>

engineVars == << network, networkRefVectorsDistanceMedian,
                 trackPositions, trackMatrix, releasePositions, releaseMatrix >>

loadVars == << loadCancelled, cache, loadPc, forceReload, loadIter, pending, loadResult,
               loads, atLoadStart, cancelSeen, foundStale, progress, cacheAtStart, notProvided >>

queryVars == << qpc, qcat, ids, maxCount, res, searchedRefVectorsPosition,
                closestObjectIds, collected, asked, qSeen, qMixed >>

vars == << engineVars, loadVars, queryVars, serviceVars >>

\* The members as one record.
Installed ==
    [ network          |-> network,
      median           |-> networkRefVectorsDistanceMedian,
      trackPositions   |-> trackPositions,
      trackMatrix      |-> trackMatrix,
      releasePositions |-> releasePositions,
      releaseMatrix    |-> releaseMatrix ]

InstallMembers(s) ==
    /\ network' = s.network
    /\ networkRefVectorsDistanceMedian' = s.median
    /\ trackPositions' = s.trackPositions
    /\ trackMatrix' = s.trackMatrix
    /\ releasePositions' = s.releasePositions
    /\ releaseMatrix' = s.releaseMatrix

Positions(cat) == IF cat = "track" THEN trackPositions ELSE releasePositions

Matrix(cat) == IF cat = "track" THEN trackMatrix ELSE releaseMatrix

(* --------------------- getSimilarObjects, by steps -------------------- *)
\* History: the members a step of the query reads are compared with those its
\* first step read.
NoteRead ==
    /\ qSeen' = IF qSeen = None THEN Some(Installed) ELSE qSeen
    /\ qMixed' = (qMixed \/ (qSeen # None /\ qSeen # Some(Installed)))

\* A query operation is called: getSimilarObjects starts and resolves the seeds
\* to positions; it returns the empty result when there is none.
QStart(cat, seeds, n) ==
    /\ qpc = "idle"
    /\ qcat' = cat
    /\ ids' = seeds
    /\ maxCount' = n
    /\ res' = << >>
    /\ closestObjectIds' = << >>
    /\ searchedRefVectorsPosition' = getMatchingRefVectorsPosition(seeds, Positions(cat))
    /\ qpc' = IF NothingToSearch(searchedRefVectorsPosition') THEN "done" ELSE "collect"
    /\ collected' = 0
    /\ asked' = 0
    /\ qSeen' = Some(Installed)
    /\ qMixed' = FALSE
    /\ UNCHANGED << engineVars, loadVars >>
    /\ UNCHANGED serviceVars

\* The head of the loop: the objects of the searched cells, without the input.
\* A searched position that the matrix does not hold is an out-of-range read.
QCollect ==
    /\ qpc = "collect"
    /\ IF Range(searchedRefVectorsPosition) \subseteq DOMAIN Matrix(qcat)
       THEN /\ closestObjectIds' =
                  RemoveInput(getObjectsIds(searchedRefVectorsPosition, Matrix(qcat)), ids)
            /\ qpc' = "append"
       ELSE /\ closestObjectIds' = << >>
            /\ qpc' = "crash"
    /\ collected' = collected + 1
    /\ NoteRead
    /\ UNCHANGED << engineVars, loadVars, qcat, ids, maxCount, res,
                    searchedRefVectorsPosition, asked >>
    /\ UNCHANGED serviceVars

\* One turn of the for loop over closestObjectIds.
QAppend ==
    /\ qpc = "append"
    /\ IF closestObjectIds = << >> \/ Reached(res, maxCount)
       THEN /\ qpc' = "check"
            /\ UNCHANGED << res, closestObjectIds >>
       ELSE /\ res' = AppendResult(res, Head(closestObjectIds))
            /\ closestObjectIds' = Tail(closestObjectIds)
            /\ UNCHANGED qpc
    /\ UNCHANGED << engineVars, loadVars, qcat, ids, maxCount,
                    searchedRefVectorsPosition, collected, asked, qSeen, qMixed >>
    /\ UNCHANGED serviceVars

\* After the for loop: return when full, else ask the network for the closest
\* neighbouring position and search again with it, or return when there is none.
\* Without a network the request dereferences a null pointer.
QExpand ==
    /\ qpc = "check"
    /\ IF Reached(res, maxCount)
       THEN /\ qpc' = "done"
            /\ UNCHANGED << searchedRefVectorsPosition, asked, qSeen, qMixed >>
       ELSE /\ asked' = asked + 1
            /\ NoteRead
            /\ IF network = None
               THEN /\ qpc' = "crash"
                    /\ UNCHANGED searchedRefVectorsPosition
               ELSE LET closestRefVectorPosition ==
                            getClosestRefVectorPosition(network[1], searchedRefVectorsPosition,
                                                        MaxDistance4(networkRefVectorsDistanceMedian))
                    IN  IF closestRefVectorPosition = None
                        THEN /\ qpc' = "done"
                             /\ UNCHANGED searchedRefVectorsPosition
                        ELSE /\ qpc' = "collect"
                             /\ searchedRefVectorsPosition' =
                                    push_back_if_not_present(searchedRefVectorsPosition,
                                                             closestRefVectorPosition[1])
    /\ UNCHANGED << engineVars, loadVars, qcat, ids, maxCount, res,
                    closestObjectIds, collected >>
    /\ UNCHANGED serviceVars

\* The caller takes the result; the arguments and locals are gone.
QReturn ==
    /\ qpc = "done"
    /\ qpc' = "idle"
    /\ qcat' = "track"
    /\ ids' = << >>
    /\ maxCount' = 0
    /\ res' = << >>
    /\ searchedRefVectorsPosition' = << >>
    /\ closestObjectIds' = << >>
    /\ collected' = 0
    /\ asked' = 0
    /\ qSeen' = None
    /\ qMixed' = FALSE
    /\ UNCHANGED << engineVars, loadVars >>
    /\ UNCHANGED serviceVars

Query ==
    \/ \E cat \in Categories : \E seeds \in SeqUpTo(IdsOf(cat), MaxSeeds) :
         \E n \in 0..MaxCount : QStart(cat, seeds, n)
    \/ QCollect
    \/ QAppend
    \/ QExpand
    \/ QReturn

Clients == 1..NumClients

CallIds == 1..NumCalls

\* A processAuthToken call that has not been made yet.
IdleCall ==
    [pc |-> "idle", client |-> 1, secret |-> 0, res |-> None,
     result |-> "none", found |-> "none", removed |-> FALSE,
     recorded |-> "none"]

\* An AuthTokenService after construction, on a database without tokens.
AuthIdle ==
    /\ authTokens = {}
    /\ generated = 0
    /\ now = 0
    /\ badAttempts = [a \in Clients |-> 0]
    /\ calls = [c \in CallIds |-> IdleCall]

\* A MediaRequestHandler after construction, no request processed.
MediaIdle ==
    /\ transcoder = None
    /\ mediaRequest = None
    /\ mediaResponse = None
    /\ mediaResult = FALSE
    /\ sessions = 0
    /\ sent = << >>
    /\ threw = FALSE

QueryIdle ==
    /\ qpc = "idle"
    /\ qcat = "track"
    /\ ids = << >>
    /\ maxCount = 0
    /\ res = << >>
    /\ searchedRefVectorsPosition = << >>
    /\ closestObjectIds = << >>
    /\ collected = 0
    /\ asked = 0
    /\ qSeen = None
    /\ qMixed = FALSE

LoadIdle ==
    /\ loadCancelled = FALSE
    /\ loadPc = "idle"
    /\ forceReload = FALSE
    /\ loadIter = 0
    /\ pending = None
    /\ loadResult = None
    /\ loads = 0
    /\ atLoadStart = None
    /\ cancelSeen = "no"
    /\ foundStale = FALSE
    /\ progress = None
    /\ cacheAtStart = "unread"
    /\ notProvided = {}

(* ------------- the search alone, over every installed snapshot -------- *)
InitSearch ==
    /\ \E s \in {NoSnapshot} \cup
                { BuildSnapshot(net, ComputeTrackPositions(net, f)) :
                    net \in Networks, f \in InstallableFeatureSets } :
          /\ network = s.network
          /\ networkRefVectorsDistanceMedian = s.median
          /\ trackPositions = s.trackPositions
          /\ trackMatrix = s.trackMatrix
          /\ releasePositions = s.releasePositions
          /\ releaseMatrix = s.releaseMatrix
    /\ cache = None
    /\ LoadIdle
    /\ QueryIdle
    /\ MediaIdle
    /\ AuthIdle

NextSearch == Query

SpecSearch == InitSearch /\ [][NextSearch]_vars

(* ------------------------- load, by its steps ------------------------- *)
\* The training iterations of a run (TrainSettings::iterationCount, 10 by default).
IterationCount == 2

\* The largest reference-vector component a training run of the engine produces.
TrainMaxRef == 1

\* The networks a training run may end with: reference vectors ordered along
\* both axes of the grid, from the least in one corner to the largest in the
\* opposite one.
TrainNetworks ==
    { net \in [Cells -> 0..TrainMaxRef] :
        /\ \A p, q \in Cells : (p[1] <= q[1] /\ p[2] <= q[2]) => net[p] <= net[q]
        /\ net[<< 0, 0 >>] = 0
        /\ net[<< Width - 1, Height - 1 >>] = TrainMaxRef }

\* The sets of tracks the provider returns features for.
Provided ==
    { F \in SUBSET Tracks : F = {} \/ Cardinality(Tracks \ F) <= MaxMissing }

\* Mutant: the callback is given what is left to do.
ProgressLeft(iter) == << IterationCount - iter, IterationCount >>

\* The fraction passed to the progress callback after a training iteration:
\* the iterations done over the iterations of the run.
ProgressAfter(iter) == << iter, IterationCount >>

\* Mutant: the flag is never seen set.
PollNothing == FALSE

\* if (_loadCancelled): one poll of the cancellation flag.
CancelPolled == loadCancelled

\* Mutant: the flag is left as an earlier request set it.
KeepFlag == loadCancelled

\* The flag as load leaves it when it starts.
FlagAtStart == FALSE

\* load returns: the result is kept, the snapshot under construction is dropped.
LoadReturn(result) ==
    /\ loadPc' = "returned"
    /\ loadResult' = Some(result)
    /\ pending' = None

\* load(session, forceReload, progressCallback) is called: the cancellation flag
\* of an earlier request is cleared; without forceReload a cache that decodes is
\* loaded, else the engine trains.
LoadStart(force) ==
    /\ loadPc = "idle"
    /\ loads < MaxLoads
    /\ loads' = loads + 1
    /\ loadCancelled' = FlagAtStart
    /\ foundStale' = loadCancelled
    /\ forceReload' = force
    /\ UNCHANGED << loadResult, loadIter >>
    /\ atLoadStart' = Some(Installed)
    /\ cancelSeen' = "no"
    /\ LET decoded == IF force \/ cache = None THEN None
                      ELSE Decode(cache[1], RefVectorDims)
       IN  IF decoded # None
           THEN /\ pending' = Some([ network |-> decoded[1].network,
                                     tracksPosition |-> decoded[1].tracksPosition,
                                     trained |-> FALSE ])
                /\ loadPc' = "build"
           ELSE /\ pending' = None
                /\ loadPc' = "fetch"
    /\ cacheAtStart' = IF force THEN "unread"
                       ELSE IF cache = None THEN "absent"
                       ELSE IF \/ cache[1].version # CacheVersion
                                  \/ cache[1].dims # RefVectorDims THEN "incompatible"
                       ELSE "compatible"
    /\ UNCHANGED << engineVars, queryVars, cache, progress, notProvided >>
    /\ UNCHANGED serviceVars

\* loadFromTraining fetches the features: the provider returns none for some
\* tracks; with no track left the load fails.
LoadFetch ==
    /\ loadPc = "fetch"
    /\ IF CancelPolled
       THEN /\ LoadReturn("Cancelled")
            /\ UNCHANGED notProvided
       ELSE \E F \in Provided :
              /\ notProvided' = Tracks \ F
              /\ IF F = {}
                 THEN LoadReturn("Failed")
                 ELSE /\ pending' = Some([ features |-> [t \in F |-> DbFeature(t)] ])
                      /\ loadPc' = "train"
                      /\ UNCHANGED loadResult
    /\ UNCHANGED << engineVars, queryVars, loadCancelled, cache, forceReload, loadIter,
                    loads, atLoadStart, cancelSeen, foundStale, progress, cacheAtStart >>
    /\ UNCHANGED serviceVars

\* One training iteration, the flag polled at its boundary; the last one yields
\* the trained network and the positions of the tracks.
LoadTrain ==
    /\ loadPc = "train"
    /\ IF CancelPolled
       THEN /\ LoadReturn("Cancelled")
            /\ UNCHANGED << loadIter, progress >>
       ELSE /\ loadIter' = loadIter + 1
            /\ progress' = Some(ProgressAfter(loadIter + 1))
            /\ UNCHANGED loadResult
            /\ IF loadIter + 1 < IterationCount
               THEN UNCHANGED << loadPc, pending >>
               ELSE /\ loadPc' = "build"
                    /\ \E net \in TrainNetworks :
                         pending' = Some([ network |-> net,
                                           tracksPosition |->
                                               ComputeTrackPositions(net, pending[1].features),
                                           trained |-> TRUE ])
    /\ UNCHANGED << engineVars, queryVars, loadCancelled, cache, forceReload,
                    loads, atLoadStart, cancelSeen, foundStale, cacheAtStart, notProvided >>
    /\ UNCHANGED serviceVars

\* Mutant: the median and the indices are built in the members, the network is
\* left for the last step.
LoadBuildInPlace ==
    /\ loadPc = "build"
    /\ IF CancelPolled
       THEN /\ LoadReturn("Cancelled")
            /\ UNCHANGED << cache, engineVars >>
       ELSE /\ pending' = Some([ snapshot |-> BuildSnapshot(pending[1].network,
                                                            pending[1].tracksPosition) ])
            /\ InstallMembers([ pending'[1].snapshot EXCEPT !.network = network ])
            /\ cache' = IF pending[1].trained
                        THEN Some(Encode(pending[1].network, pending[1].tracksPosition))
                        ELSE cache
            /\ loadPc' = "install"
            /\ UNCHANGED loadResult
    /\ UNCHANGED << queryVars, loadCancelled, forceReload, loadIter,
                    loads, atLoadStart, cancelSeen, foundStale, progress, cacheAtStart, notProvided >>
    /\ UNCHANGED serviceVars

\* load(session, network, tracksPosition) builds the indices of the new snapshot
\* aside, the flag polled; a trained snapshot is encoded and written to the
\* cache.
LoadBuild ==
    /\ loadPc = "build"
    /\ IF CancelPolled
       THEN /\ LoadReturn("Cancelled")
            /\ UNCHANGED cache
       ELSE /\ pending' = Some([ snapshot |-> BuildSnapshot(pending[1].network,
                                                            pending[1].tracksPosition) ])
            /\ cache' = IF pending[1].trained
                        THEN Some(Encode(pending[1].network, pending[1].tracksPosition))
                        ELSE cache
            /\ loadPc' = "install"
            /\ UNCHANGED loadResult
    /\ UNCHANGED << engineVars, queryVars, loadCancelled, forceReload, loadIter,
                    loads, atLoadStart, cancelSeen, foundStale, progress, cacheAtStart, notProvided >>
    /\ UNCHANGED serviceVars

\* The new snapshot replaces the installed one, and load returns.
LoadInstall ==
    /\ loadPc = "install"
    /\ InstallMembers(pending[1].snapshot)
    /\ LoadReturn("Success")
    /\ atLoadStart' = None
    /\ UNCHANGED << queryVars, loadCancelled, cache, forceReload, loadIter, loads,
                    cancelSeen, foundStale, progress, cacheAtStart, notProvided >>
    /\ UNCHANGED serviceVars

\* The caller takes the result of load.
LoadAck ==
    /\ loadPc = "returned"
    /\ loadPc' = "idle"
    /\ forceReload' = FALSE
    /\ loadIter' = 0
    /\ loadResult' = None
    /\ atLoadStart' = None
    /\ cancelSeen' = "no"
    /\ foundStale' = FALSE
    /\ progress' = None
    /\ cacheAtStart' = "unread"
    /\ notProvided' = {}
    /\ UNCHANGED << engineVars, queryVars, loadCancelled, cache, pending, loads >>
    /\ UNCHANGED serviceVars

\* requestCancelLoad sets the flag. History: whether the request came while a
\* load was still to poll the flag ("polled") or after its last poll ("late").
requestCancelLoad ==
    /\ loadCancelled' = TRUE
    /\ cancelSeen' = IF loadPc \in {"fetch", "train", "build"} THEN "polled"
                     ELSE IF loadPc = "install" /\ cancelSeen = "no" THEN "late"
                     ELSE cancelSeen
    /\ UNCHANGED << engineVars, queryVars, cache, loadPc, forceReload, loadIter, pending,
                    loadResult, loads, atLoadStart, foundStale, progress, cacheAtStart, notProvided >>
    /\ UNCHANGED serviceVars

Load ==
    \/ \E force \in BOOLEAN : LoadStart(force)
    \/ LoadFetch
    \/ LoadTrain
    \/ LoadBuild
    \/ LoadInstall
    \/ LoadAck

\* The queries of the engine's specification: one seed at most, and as many
\* results as there may be.
EngineQuery ==
    \/ \E cat \in Categories : \E seeds \in SeqUpTo(IdsOf(cat), 1) :
         QStart(cat, seeds, MaxCount)
    \/ QCollect
    \/ QAppend
    \/ QExpand
    \/ QReturn

\* After construction: nothing installed; the cache directory holds nothing or
\* a blob of another version or configuration.
Init ==
    /\ network = NoSnapshot.network
    /\ networkRefVectorsDistanceMedian = NoSnapshot.median
    /\ trackPositions = NoSnapshot.trackPositions
    /\ trackMatrix = NoSnapshot.trackMatrix
    /\ releasePositions = NoSnapshot.releasePositions
    /\ releaseMatrix = NoSnapshot.releaseMatrix
    /\ cache \in {None} \cup { Some(b) : b \in StaleBlobs }
    /\ LoadIdle
    /\ QueryIdle
    /\ MediaIdle
    /\ AuthIdle

Next == Load \/ requestCancelLoad \/ EngineQuery

Spec == Init /\ [][Next]_vars

(* ------------------ Remote::Server::MediaRequestHandler --------------- *)
\* The ids Database::Track::getById finds a track for.
DbTrackIds == 1..NumMediaTracks

\* The bytes transcoding a track outputs, in production order.  Byte k of
\* track t is the number 10 * t + k; track t has StreamLen - t + 1 bytes.
OutputStream(track) == [k \in 1..(StreamLen - track + 1) |-> 10 * track + k]

Min(a, b) == IF a <= b THEN a ELSE b

\* Transcode::AvConvTranscoder::process: outputs the next bytes of the
\* stream, at least one and at most MaxChunk; once the stream is exhausted
\* the transcoder is complete.
process(t) ==
    LET stream == OutputStream(t.track)
        left == Len(stream) - t.produced
    IN  IF left = 0
        THEN { [t EXCEPT !.complete = TRUE] }
        ELSE { [t EXCEPT !.produced = @ + c,
                         !.output = @ \o SubSeq(stream, t.produced + 1, t.produced + c)]
               : c \in 1..Min(MaxChunk, left) }

\* while (!_transcoder->isComplete()
\*        && _transcoder->getOutputData().size() < dataSize)
\*     _transcoder->process();
RECURSIVE ProcessUntil(_, _)
ProcessUntil(t, dataSize) ==
    IF ~t.complete /\ Len(t.output) < dataSize
    THEN UNION { ProcessUntil(u, dataSize) : u \in process(t) }
    ELSE { t }

DefaultBitrate == 128000

\* The transcoder std::make_shared<Transcode::AvConvTranscoder>(parameters)
\* constructs: nothing output yet.
NewTranscoder(id, track, bitrate) ==
    [id |-> id, track |-> track, bitrate |-> bitrate,
     produced |-> 0, complete |-> FALSE, output |-> << >>]

AudioPrepares ==
    [type : {"Prepare"}, kind : {"audio"},
     codec_type : {None, Some("OGA"), Some("other")},
     bitrate : {None, Some(RequestBitrate)},
     track_id : 0..NumMediaTracks,
     requested_data_size : {0}]

OtherPrepares ==
    [type : {"Prepare"}, kind : {"video", "none"},
     codec_type : {None}, bitrate : {None}, track_id : {0},
     requested_data_size : {0}]

GetParts ==
    [type : {"GetPart"}, kind : {"none"},
     codec_type : {None}, bitrate : {None}, track_id : {0},
     requested_data_size : 0..MaxRequested]

Terminates ==
    [type : {"Terminate"}, kind : {"none"},
     codec_type : {None}, bitrate : {None}, track_id : {0},
     requested_data_size : {0}]

\* switch (request.audio().codec_type()): CodecTypeOGA is handled, any
\* other value is not; without a codec type the format stays OGA.
HandledCodec(request) == request.codec_type \in {None, Some("OGA")}

ErrorResponse(message) ==
    [type |-> "Error", error |-> TRUE, message |-> message, data |-> << >>]

OkResponse ==
    [type |-> "Error", error |-> FALSE, message |-> "", data |-> << >>]

PartResponse(data) ==
    [type |-> "Part", error |-> FALSE, message |-> "", data |-> data]

NeverInProgress(t) == FALSE

\* if (_transcoder)
TranscodeInProgress(t) == t # None

\* if (!_transcoder)
NoTranscoder(t) == t = None

\* dataSize = request.requested_data_size();
\* if (dataSize > _maxPartSize) dataSize = _maxPartSize;
PartSize(requested) == IF requested > MaxPartSize THEN MaxPartSize ELSE requested

\* itEnd: begin + dataSize if the buffer holds more than dataSize, else end.
PartEnd(output, dataSize) ==
    IF Len(output) > dataSize THEN dataSize ELSE Len(output)

EraseAll(output, end) == << >>

\* _transcoder->getOutputData().erase(begin, itEnd)
ErasePart(output, end) == SubSeq(output, end + 1, Len(output))

MediaFrame == UNCHANGED << engineVars, loadVars, queryVars, authVars >>

\* processAudioPrepare.  throws: whether constructing the input file, the
\* parameters or the transcoder throws.
processAudioPrepare(request, throws) ==
    /\ request \in AudioPrepares
    /\ mediaRequest' = Some(request)
    /\ LET bitrate == IF request.bitrate # None THEN request.bitrate[1]
                      ELSE DefaultBitrate
       IN  IF ~HandledCodec(request)
           THEN /\ mediaResult' = FALSE
                /\ mediaResponse' = None
                /\ threw' = FALSE
                /\ UNCHANGED << transcoder, sessions, sent >>
           ELSE IF TranscodeInProgress(transcoder)
           THEN /\ mediaResult' = TRUE
                /\ mediaResponse' = Some(ErrorResponse("Transcode already in progress"))
                /\ threw' = FALSE
                /\ UNCHANGED << transcoder, sessions, sent >>
           ELSE IF request.track_id \notin DbTrackIds
           THEN /\ mediaResult' = TRUE
                /\ mediaResponse' = Some(ErrorResponse("Cannot find requested track!"))
                /\ threw' = FALSE
                /\ UNCHANGED << transcoder, sessions, sent >>
           ELSE IF throws
           THEN /\ mediaResult' = TRUE
                /\ mediaResponse' = Some(ErrorResponse("exception"))
                /\ threw' = TRUE
                /\ UNCHANGED << transcoder, sessions, sent >>
           ELSE /\ sessions < MaxSessions
                /\ transcoder' = Some(NewTranscoder(sessions + 1, request.track_id, bitrate))
                /\ sessions' = sessions + 1
                /\ sent' = << >>
                /\ threw' = FALSE
                /\ mediaResult' = TRUE
                /\ mediaResponse' = Some(OkResponse)
    /\ MediaFrame

\* process, for a video Prepare and for a Prepare with neither audio nor
\* video: logged, false returned, the response left alone.
processOtherPrepare(request) ==
    /\ request \in OtherPrepares
    /\ mediaRequest' = Some(request)
    /\ mediaResult' = FALSE
    /\ mediaResponse' = None
    /\ threw' = FALSE
    /\ UNCHANGED << transcoder, sessions, sent >>
    /\ MediaFrame

processGetPart(request) ==
    /\ request \in GetParts
    /\ mediaRequest' = Some(request)
    /\ mediaResult' = TRUE
    /\ LET dataSize == PartSize(request.requested_data_size)
       IN  IF NoTranscoder(transcoder)
           THEN /\ mediaResponse' = Some(ErrorResponse("No transcoder set!"))
                /\ UNCHANGED << transcoder, sent >>
           ELSE \E t \in ProcessUntil(transcoder[1], dataSize) :
                    LET end == PartEnd(t.output, dataSize)
                        part == SubSeq(t.output, 1, end)
                    IN  /\ mediaResponse' = Some(PartResponse(part))
                        /\ transcoder' = Some([t EXCEPT !.output = ErasePart(t.output, end)])
                        /\ sent' = sent \o part
    /\ threw' = FALSE
    /\ UNCHANGED sessions
    /\ MediaFrame

processTerminate(request) ==
    /\ request \in Terminates
    /\ mediaRequest' = Some(request)
    /\ transcoder' = None
    /\ sent' = << >>
    /\ mediaResult' = TRUE
    /\ mediaResponse' = Some(OkResponse)
    /\ threw' = FALSE
    /\ UNCHANGED sessions
    /\ MediaFrame

AudioPrepare == \E request \in AudioPrepares, throws \in BOOLEAN :
                    processAudioPrepare(request, throws)

OtherPrepare == \E request \in OtherPrepares : processOtherPrepare(request)

GetPart == \E request \in GetParts : processGetPart(request)

Terminate == \E request \in Terminates : processTerminate(request)

NextMedia == AudioPrepare \/ OtherPrepare \/ GetPart \/ Terminate

SpecMedia == Init /\ [][NextMedia]_vars

(* -------------------------- Auth::AuthTokenService -------------------- *)
\* The ids Database::User::getById finds a user for.
DbUserIds == { 1 }

\* sha1Function.compute(secret, {}): distinct secrets have distinct hashes.
Sha1(secret) == 100 + secret

\* Database::AuthToken::getByValue(session, secretHash)
getByValue(tokens, secretHash) ==
    IF \E t \in tokens : t.value = secretHash
    THEN Some(CHOOSE t \in tokens : t.value = secretHash)
    ELSE None

\* authToken->getExpiry() < Wt::WDateTime::currentDateTime()
Expired(token, time) == token.expiry < time

\* Database::AuthToken::removeExpiredTokens(session, now)
removeExpiredTokens(tokens, time) == { t \in tokens : ~Expired(t, time) }

\* LoginThrottler::isClientThrottled
isClientThrottled(attempts, clientAddress) ==
    attempts[clientAddress] >= MaxBadAttempts

\* LoginThrottler::onBadClientAttempt
onBadClientAttempt(attempts, clientAddress) ==
    [attempts EXCEPT ![clientAddress] = Min(@ + 1, MaxBadAttempts)]

\* LoginThrottler::onGoodClientAttempt
onGoodClientAttempt(attempts, clientAddress) ==
    [attempts EXCEPT ![clientAddress] = 0]

AuthFrame == UNCHANGED << engineVars, loadVars, queryVars, mediaVars >>

\* AuthTokenService::createAuthToken, in one unique transaction.  A user
\* that does not exist makes it throw with nothing written.
createAuthToken(userId, expiry) ==
    /\ generated < NumTokens
    /\ IF userId \notin DbUserIds
       THEN UNCHANGED << authTokens, generated >>
       ELSE LET secret == generated + 1
                created == authTokens \cup
                    { [value |-> Sha1(secret), expiry |-> expiry, user |-> userId] }
            IN  /\ generated' = secret
                /\ authTokens' =
                       IF Cardinality({ t \in created : t.user = userId }) >= PurgeCount
                       THEN removeExpiredTokens(created, now)
                       ELSE created
    /\ UNCHANGED << now, badAttempts, calls >>
    /\ AuthFrame

\* AuthTokenService::clearAuthTokens, in one unique transaction.
clearAuthTokens(userId) ==
    /\ userId \in DbUserIds
    /\ authTokens' = { t \in authTokens : t.user # userId }
    /\ UNCHANGED << generated, now, badAttempts, calls >>
    /\ AuthFrame

\* Wt::WDateTime::currentDateTime() advances.
Tick ==
    /\ now < MaxTime
    /\ now' = now + 1
    /\ UNCHANGED << authTokens, generated, badAttempts, calls >>
    /\ AuthFrame

\* AuthTokenService::processAuthToken, first block: under the shared lock,
\* a throttled client is answered Throttled at once.  Calls are numbered in
\* the order they start.
ProcessAuthTokenEnter(c, clientAddress, tokenValue) ==
    /\ calls[c].pc = "idle"
    /\ \A d \in CallIds : d < c => calls[d].pc # "idle"
    /\ calls' = [calls EXCEPT ![c] =
           IF isClientThrottled(badAttempts, clientAddress)
           THEN [@ EXCEPT !.pc = "done", !.client = clientAddress,
                          !.secret = tokenValue, !.result = "Throttled"]
           ELSE [@ EXCEPT !.pc = "checked", !.client = clientAddress,
                          !.secret = tokenValue]]
    /\ UNCHANGED << authTokens, generated, now, badAttempts >>
    /\ AuthFrame

\* The static Auth::processAuthToken, in one unique transaction: the token
\* is looked up by the hash of the secret and, when found, removed; only a
\* token that has not expired yields its user and expiry.
ProcessAuthTokenLookup(c) ==
    /\ calls[c].pc = "checked"
    /\ LET authToken == getByValue(authTokens, Sha1(calls[c].secret))
       IN  IF authToken = None
           THEN /\ calls' = [calls EXCEPT ![c].pc = "looked", ![c].res = None]
                /\ UNCHANGED authTokens
           ELSE IF Expired(authToken[1], now)
           THEN /\ authTokens' = authTokens \ { authToken[1] }
                /\ calls' = [calls EXCEPT ![c].pc = "looked", ![c].res = None,
                                          ![c].found = "expired",
                                          ![c].removed = TRUE]
           ELSE /\ authTokens' = authTokens \ { authToken[1] }
                /\ calls' = [calls EXCEPT ![c].pc = "looked",
                                          ![c].res = Some([userId |-> authToken[1].user,
                                                           expiry |-> authToken[1].expiry]),
                                          ![c].found = "valid",
                                          ![c].removed = TRUE]
    /\ UNCHANGED << generated, now, badAttempts >>
    /\ AuthFrame

\* AuthTokenService::processAuthToken, last block: under the unique lock.
ProcessAuthTokenAnswer(c) ==
    /\ calls[c].pc = "looked"
    /\ IF isClientThrottled(badAttempts, calls[c].client)
       THEN /\ calls' = [calls EXCEPT ![c].pc = "done", ![c].result = "Throttled"]
            /\ UNCHANGED badAttempts
       ELSE IF calls[c].res = None
       THEN /\ badAttempts' = onBadClientAttempt(badAttempts, calls[c].client)
            /\ calls' = [calls EXCEPT ![c].pc = "done", ![c].result = "Denied",
                                      ![c].recorded = "bad"]
       ELSE /\ badAttempts' = onGoodClientAttempt(badAttempts, calls[c].client)
            /\ calls' = [calls EXCEPT ![c].pc = "done", ![c].result = "Granted",
                                      ![c].recorded = "good"]
    /\ UNCHANGED << authTokens, generated, now >>
    /\ AuthFrame

CreateToken == \E userId \in { 0 } \cup DbUserIds, expiry \in 0..MaxTime :
                   createAuthToken(userId, expiry)

ClearTokens == \E userId \in DbUserIds : clearAuthTokens(userId)

Enter == \E c \in CallIds, clientAddress \in Clients, tokenValue \in 0..NumTokens :
             ProcessAuthTokenEnter(c, clientAddress, tokenValue)

Lookup == \E c \in CallIds : ProcessAuthTokenLookup(c)

Answer == \E c \in CallIds : ProcessAuthTokenAnswer(c)

InitAuth == Init /\ cache = None

NextAuth == CreateToken \/ ClearTokens \/ Tick \/ Enter \/ Lookup \/ Answer

SpecAuth == InitAuth /\ [][NextAuth]_vars

(* ------------------------------ claims -------------------------------- *)
NoDuplicates(v) == \A i, j \in 1..Len(v) : v[i] = v[j] => i = j

\* The cells of the matrix of a category that hold an id.
CellsOf(cat, id) == { c \in DOMAIN Matrix(cat) : id \in Range(Matrix(cat)[c]) }

HasEntry(cat, id) == id \in DOMAIN Positions(cat)

\* C1: at no point of the search, and so not at its return, does the result
\* hold an id of the seed list, with or without an entry in the PositionIndex.
C1_NoSeedInResult == Range(res) \cap Range(ids) = {}

\* The search returned a non-empty result for two seeds, one with and one
\* without an entry, after the seed had been collected from its cell and erased.
C1_Witness ==
    /\ qpc = "done"
    /\ res # << >>
    /\ \E a, b \in Range(ids) : HasEntry(qcat, a) /\ ~HasEntry(qcat, b)
    /\ \E a \in Range(ids) : CellsOf(qcat, a) \cap Range(searchedRefVectorsPosition) # {}

\* C2: at every step of the search the result holds at most maxCount ids;
\* with maxCount = 0 it stays empty.
C2_AtMostMaxCount == Len(res) <= maxCount /\ (maxCount = 0 => res = << >>)

\* The for loop stops at maxCount although collected ids are left.
C2_Witness ==
    /\ qpc = "append"
    /\ maxCount > 0
    /\ Len(res) = maxCount
    /\ closestObjectIds # << >>
    /\ Range(closestObjectIds) \ Range(res) # {}

\* C3: the result never holds an id twice.
C3_NoDuplicates == NoDuplicates(res)

\* A returned id is stored in two searched cells, and a later pass collected
\* the cells of the earlier pass again.
C3_Witness ==
    /\ qpc = "done"
    /\ collected >= 2
    /\ \E id \in Range(res) :
          Cardinality(CellsOf(qcat, id) \cap Range(searchedRefVectorsPosition)) >= 2

\* C4: a search whose seed list is empty, or has no seed with an entry in the
\* PositionIndex, has returned the empty list, with no pass over the matrix and
\* no request to the network, whatever is installed.
C4_NoSeedPosition ==
    (qpc # "idle" /\ \A id \in Range(ids) : ~HasEntry(qcat, id))
        => (qpc = "done" /\ res = << >> /\ collected = 0 /\ asked = 0)

\* With a snapshot installed, a search for seeds that have no entry returned.
C4_Witness ==
    /\ qpc = "done"
    /\ ids # << >>
    /\ \A id \in Range(ids) : ~HasEntry(qcat, id)
    /\ network # None
    /\ Positions(qcat) # << >>

\* C5: without a network every PositionIndex is empty; no query fails (reads a
\* cell the matrix has not, or dereferences the absent network); a query made
\* while nothing is installed returns the empty result.
C5_NotReadyIsEmpty ==
    /\ network = None => (trackPositions = << >> /\ releasePositions = << >>)
    /\ qpc # "crash"
    /\ (qpc = "done" /\ qSeen = Some(NoSnapshot))
          => (res = << >> /\ collected = 0 /\ asked = 0)

\* A query with a seed returned while nothing was installed, after a load that
\* failed or was cancelled.
C5_Witness ==
    /\ qpc = "done"
    /\ ids # << >>
    /\ qSeen = Some(NoSnapshot)
    /\ network = None
    /\ loadResult \in {Some("Failed"), Some("Cancelled")}

\* C6: while a load is in progress, and after it returned Cancelled or Failed,
\* the members are what they were when the load started.
C6_AllOrNothing ==
    (loadPc \notin {"idle", "returned"} \/ loadResult \in {Some("Cancelled"), Some("Failed")})
        => (atLoadStart # None /\ Installed = atLoadStart[1])

\* A load was cancelled while an earlier snapshot was installed.
C6_Witness ==
    /\ loadPc = "returned"
    /\ loadResult = Some("Cancelled")
    /\ network # None
    /\ loads = 2

\* C7: a query that returns has read the members of one snapshot only.
C7_SingleSnapshot == qpc = "done" => ~qMixed

IsPrefix(a, b) == Len(a) <= Len(b) /\ SubSeq(b, 1, Len(a)) = a

\* The positions the seeds of the query resolve to in the installed snapshot.
SeedPositions == getMatchingRefVectorsPosition(ids, Positions(qcat))

\* The pass that discovers an id: the length of the shortest searched list, from
\* the seed positions on, that has a cell holding the id.
PassOf(id) ==
    LET s     == searchedRefVectorsPosition
        in(k) == \E j \in 1..k : s[j] \in CellsOf(qcat, id)
    IN  CHOOSE k \in Len(SeedPositions)..Len(s) :
            in(k) /\ \A m \in Len(SeedPositions)..(k - 1) : ~in(m)

DiscoveryOrdered ==
    \A i, j \in 1..Len(res) : i < j => PassOf(res[i]) <= PassOf(res[j])

\* C11: a step of the search keeps what the result holds, in place, and adds at
\* the end only; the ids are in the order of the passes that discovered them, an
\* id of a seed cell before every id found only in a cell added by expansion.
C11_DiscoveryOrder ==
    [][ (qpc # "idle" /\ qpc' # "idle") => (IsPrefix(res, res') /\ DiscoveryOrdered') ]_vars

\* The search returned an id of a seed cell followed by an id of a cell that
\* the expansion added.
C11_Witness ==
    /\ qpc = "done"
    /\ Len(res) >= 2
    /\ PassOf(res[1]) = Len(SeedPositions)
    /\ PassOf(res[Len(res)]) > Len(SeedPositions)

\* Tracks a and b are at cell (0,0), c at (0,1), d at (1,1), and no other track
\* has a position.
Scenario2x2(a, b, c, d) ==
    /\ Cardinality({a, b, c, d}) = 4
    /\ DOMAIN trackPositions = {a, b, c, d}
    /\ trackPositions[a] = << << 0, 0 >> >>
    /\ trackPositions[b] = << << 0, 0 >> >>
    /\ trackPositions[c] = << << 0, 1 >> >>
    /\ trackPositions[d] = << << 1, 1 >> >>

\* The reference vectors of two cells are within 0.75 times the median.
WithinCutoff(p, q) ==
    4 * computeRefVectorsDistance(network[1], p, q) <= 3 * networkRefVectorsDistanceMedian

\* C12: on the 2x2 grid with a, b at (0,0), c at (0,1) and d at (1,1), cell
\* (0,1) being within the cutoff of (0,0), getSimilarTracks([a], 2) returns
\* exactly [b, c].
C12_Scenario2x2 ==
    \A a, b, c, d \in Tracks :
        ( /\ Width = 2 /\ Height = 2
          /\ qpc = "done" /\ qcat = "track" /\ ids = << a >> /\ maxCount = 2
          /\ network # None
          /\ Scenario2x2(a, b, c, d)
          /\ WithinCutoff(<< 0, 0 >>, << 0, 1 >>) )
        => res = << b, c >>

\* The query of the scenario returned, the second id after an expansion.
C12_Witness ==
    \E a, b, c, d \in Tracks :
        /\ qpc = "done" /\ qcat = "track" /\ ids = << a >> /\ maxCount = 2
        /\ network # None
        /\ Scenario2x2(a, b, c, d)
        /\ WithinCutoff(<< 0, 0 >>, << 0, 1 >>)
        /\ res = << b, c >>
        /\ asked >= 1

\* The objects of the searched cells that are not in the input.
FrontierIds ==
    { id \in IdsOf(qcat) : CellsOf(qcat, id) \cap Range(searchedRefVectorsPosition) # {} }
        \ Range(ids)

\* No cell next to a searched one, and not searched itself, is within the cutoff.
NoCellWithinCutoff ==
    \A p \in Range(searchedRefVectorsPosition) :
        \A q \in Cells \ Range(searchedRefVectorsPosition) :
            Adjacent(p, q) => ~WithinCutoff(p, q)

\* Track b alone shares the cell of track a, and no cell next to it is within
\* the cutoff.
ScenarioAlone(a, b) ==
    /\ a # b
    /\ a \in DOMAIN trackPositions
    /\ { t \in DOMAIN trackPositions : trackPositions[t] = trackPositions[a] } = {a, b}
    /\ \A q \in Cells : Adjacent(trackPositions[a][1], q) => ~WithinCutoff(trackPositions[a][1], q)

\* C13: a search that returns fewer than maxCount ids returns every object of
\* the searched cells that is not in the input, and no further cell is within
\* the cutoff; getSimilarTracks([a], 5) is [b] when b alone shares a's cell and
\* no cell next to it is within the cutoff.
C13_FewerIsComplete ==
    /\ (qpc = "done" /\ Len(res) < maxCount /\ searchedRefVectorsPosition # << >>)
          => (Range(res) = FrontierIds /\ NoCellWithinCutoff)
    /\ \A a, b \in Tracks :
          (qpc = "done" /\ qcat = "track" /\ ids = << a >> /\ maxCount = 5
             /\ network # None /\ ScenarioAlone(a, b))
          => res = << b >>

\* The query of the scenario returned [b], other tracks lying in other cells;
\* the network was asked once and had no position to give.
C13_Witness ==
    \E a, b \in Tracks :
        /\ qpc = "done" /\ qcat = "track" /\ ids = << a >> /\ maxCount = 5
        /\ network # None
        /\ ScenarioAlone(a, b)
        /\ res = << b >>
        /\ asked = 1
        /\ DOMAIN trackPositions = Tracks

\* q is next to the searched position p, is not searched, is within the cutoff
\* of p, and no unsearched cell next to a searched one is nearer.
ClosestWithinCutoff(p, q) ==
    LET s == searchedRefVectorsPosition
    IN  /\ p \in Range(s)
        /\ q \in Cells \ Range(s)
        /\ Adjacent(p, q)
        /\ WithinCutoff(p, q)
        /\ \A p2 \in Range(s) : \A q2 \in Cells \ Range(s) :
               Adjacent(p2, q2) =>
                   computeRefVectorsDistance(network[1], p, q)
                       <= computeRefVectorsDistance(network[1], p2, q2)

\* Every searched position after the seed positions is next to, and within the
\* cutoff of, one searched before it; every id of the result is in a searched cell.
Chained ==
    LET s == searchedRefVectorsPosition
    IN  /\ \A k \in (Len(SeedPositions) + 1)..Len(s) :
               \E j \in 1..(k - 1) : Adjacent(s[j], s[k]) /\ WithinCutoff(s[j], s[k])
        /\ \A id \in Range(res) : CellsOf(qcat, id) \cap Range(s) # {}

\* C14: a step of a running search that changes the searched positions is the
\* step after the for loop, taken with fewer than maxCount ids, and appends one
\* position: the nearest unsearched one next to a searched position, within
\* 0.75 times the median at every expansion; so the searched positions are
\* chained to the seed positions and hold every returned id.
C14_Expansion ==
    [][ /\ (qpc # "idle" /\ qpc' # "idle"
             /\ searchedRefVectorsPosition' # searchedRefVectorsPosition)
            => /\ qpc = "check"
               /\ Len(res) < maxCount
               /\ \E p, q \in Cells :
                     /\ ClosestWithinCutoff(p, q)
                     /\ searchedRefVectorsPosition' = Append(searchedRefVectorsPosition, q)
        /\ qpc' # "idle" => Chained' ]_vars

\* A search from two seed positions returned an id of a cell that an expansion
\* added, the median not being zero.
C14_Witness ==
    /\ qpc = "done"
    /\ networkRefVectorsDistanceMedian > 0
    /\ Len(SeedPositions) = 2
    /\ Len(searchedRefVectorsPosition) = 3
    /\ \E id \in Range(res) :
          CellsOf(qcat, id) \cap Range(searchedRefVectorsPosition) = {searchedRefVectorsPosition[3]}

\* The cache holds a blob of this version and configuration.
CacheCompatible ==
    /\ cache # None
    /\ cache[1].version = CacheVersion
    /\ cache[1].dims = RefVectorDims

C16_IncompatibleCacheRetrains ==
    cacheAtStart = "incompatible" =>
        /\ ~forceReload
        /\ loadPc \in {"fetch", "train", "build", "install", "returned"}
        /\ loadPc = "build" => pending[1].trained
        /\ loadPc = "install" => loadIter = IterationCount
        /\ loadResult # Some("Success") => (atLoadStart # None /\ Installed = atLoadStart[1])
        /\ loadResult = Some("Success") =>
              /\ loadIter = IterationCount
              /\ network # None
              /\ network[1] \in TrainNetworks
              /\ CacheCompatible
        /\ loadResult = Some("Failed") => notProvided = Tracks
        /\ loadResult = Some("Cancelled") => cancelSeen = "polled"

\* A load that found an incompatible blob has trained and succeeded.
C16_Witness ==
    /\ cacheAtStart = "incompatible"
    /\ loadPc = "returned"
    /\ loadResult = Some("Success")
    /\ trackPositions # << >>

\* A training load has returned Success.
TrainedAndInstalled ==
    /\ loadPc = "returned"
    /\ loadResult = Some("Success")
    /\ loadIter = IterationCount

\* C17: after a training load succeeded, a track the provider returned none for
\* is in no index of the installed snapshot, its release is in none unless
\* another of its tracks has features, the track resolves to no position and
\* is in no result of a query on that snapshot, and every other track is
\* indexed; a load fails only when the provider returned none for every track.
C17_NoFeaturesNoEntry ==
    /\ TrainedAndInstalled =>
          /\ DOMAIN trackPositions = Tracks \ notProvided
          /\ \A X \in notProvided :
                /\ \A c \in DOMAIN trackMatrix : X \notin Range(trackMatrix[c])
                /\ getMatchingRefVectorsPosition(<< X >>, trackPositions) = << >>
                /\ (\A t \in Tracks : ReleaseOf(t) = ReleaseOf(X) => t \in notProvided)
                      => /\ ReleaseOf(X) \notin DOMAIN releasePositions
                         /\ \A c \in DOMAIN releaseMatrix :
                               ReleaseOf(X) \notin Range(releaseMatrix[c])
                /\ (qpc = "done" /\ qcat = "track" /\ qSeen = Some(Installed) /\ ~qMixed)
                      => X \notin Range(res)
    /\ (loadPc = "returned" /\ loadResult = Some("Failed")) => notProvided = Tracks

\* A training load for which the provider returned none for a track succeeded,
\* and a query with that track as seed returned on the new snapshot.
C17_Witness ==
    /\ TrainedAndInstalled
    /\ notProvided # {}
    /\ qpc = "done"
    /\ qcat = "track"
    /\ qSeen = Some(Installed)
    /\ ids # << >>
    /\ Range(ids) \subseteq notProvided
    /\ res = << >>

\* A fraction << numerator, denominator >> lies in [0, 1].
InUnitInterval(f) == f[2] > 0 /\ 0 <= f[1] /\ f[1] <= f[2]

\* f <= g, for fractions with positive denominators.
FractionLeq(f, g) == f[1] * g[2] <= g[1] * f[2]

C19_SearchTerminates ==
    [][ /\ (qpc = "append" /\ qpc' = "append")
            => Len(closestObjectIds') < Len(closestObjectIds)
        /\ (qpc = "check" /\ qpc' = "collect")
            => /\ Len(searchedRefVectorsPosition') = Len(searchedRefVectorsPosition) + 1
               /\ searchedRefVectorsPosition'[Len(searchedRefVectorsPosition')]
                      \notin Range(searchedRefVectorsPosition)
        /\ NoDuplicates(searchedRefVectorsPosition')
        /\ collected' <= Cardinality(Cells)
        /\ asked' <= Cardinality(Cells) ]_vars

\* A search went through every cell of the grid and returned.
C19_Witness ==
    /\ qpc = "done"
    /\ Len(SeedPositions) = 1
    /\ Len(searchedRefVectorsPosition) = Cardinality(Cells)
    /\ collected = Cardinality(Cells)
    /\ asked = Cardinality(Cells)

\* The result of the running query's seeds on the installed snapshot, for a
\* maxCount of n.
ResultFor(n) ==
    getSimilarObjects(ids, Matrix(qcat), Positions(qcat), n,
                      IF network = None THEN None ELSE network[1],
                      networkRefVectorsDistanceMedian)

\* C20: the result a search returns for maxCount is the result for the same
\* seeds and snapshot, it extends the result for maxCount - 1 and is extended
\* by the result for maxCount + 1.
C20_PrefixInMaxCount ==
    qpc = "done" =>
        /\ res = ResultFor(maxCount)
        /\ maxCount > 0 => IsPrefix(ResultFor(maxCount - 1), res)
        /\ IsPrefix(res, ResultFor(maxCount + 1))

\* A search stopped at maxCount, and one more would have given one more id,
\* from a cell that an expansion adds.
C20_Witness ==
    /\ qpc = "done"
    /\ maxCount >= 1
    /\ Len(res) = maxCount
    /\ Len(ResultFor(maxCount + 1)) = maxCount + 1
    /\ CellsOf(qcat, ResultFor(maxCount + 1)[maxCount + 1])
           \cap Range(searchedRefVectorsPosition) = {}


(* ---------------------- MediaRequestHandler claims -------------------- *)
\* The step constructs a transcoder: one is installed afterwards that was
\* not installed before.
Installs ==
    /\ transcoder' # None
    /\ transcoder = None \/ transcoder[1].id # transcoder'[1].id

\* The request of the step is an audio Prepare that names a known track with
\* a handled codec type, and constructing the transcoder did not throw.
GoodPrepare ==
    /\ mediaRequest' # None
    /\ mediaRequest'[1] \in AudioPrepares
    /\ HandledCodec(mediaRequest'[1])
    /\ mediaRequest'[1].track_id \in DbTrackIds
    /\ ~threw'

\* A transcoder is installed only by a good Prepare received with none
\* installed, and it is a fresh transcoder of the requested track.
InstalledOnlyByGoodPrepare ==
    Installs =>
        /\ GoodPrepare
        /\ transcoder = None
        /\ transcoder'[1].track = mediaRequest'[1].track_id
        /\ transcoder'[1].output = << >>
        /\ transcoder'[1].produced = 0
        /\ mediaResponse' = Some(OkResponse)

\* A Prepare that is not good leaves _transcoder as it was.
FailedPrepareInstallsNothing ==
    (mediaRequest' # None /\ mediaRequest'[1].type = "Prepare" /\ ~GoodPrepare)
        => transcoder' = transcoder

\* Only Terminate removes the transcoder; with none installed a good
\* Prepare installs one.
OnlyTerminateRemoves ==
    /\ (transcoder # None /\ transcoder' = None)
           => mediaRequest' \in { Some(r) : r \in Terminates }
    /\ (mediaRequest' \in { Some(r) : r \in Terminates }) => transcoder' = None
    /\ (transcoder = None /\ GoodPrepare) => Installs

\* The answer of an audio Prepare that found a transcoder installed.
AnswersInProgress ==
    /\ transcoder' = transcoder
    /\ mediaResult'
    /\ mediaResponse' = Some(ErrorResponse("Transcode already in progress"))

\* C21, as stated: the lifecycle is Prepare -> GetPart* -> Terminate; a
\* transcoder is installed only by an audio Prepare that finds the track and
\* constructs the transcoder without exception; every audio Prepare received
\* while a transcoder is installed answers the error "Transcode already in
\* progress" and leaves the transcoder and its buffered output unchanged; a
\* failing Prepare installs nothing; only Terminate removes the transcoder,
\* after which a new Prepare is accepted.
C21_Lifecycle ==
    [][ /\ InstalledOnlyByGoodPrepare
        /\ FailedPrepareInstallsNothing
        /\ OnlyTerminateRemoves
        /\ (transcoder # None /\ mediaRequest' # None
                /\ mediaRequest'[1] \in AudioPrepares)
               => AnswersInProgress ]_vars

\* C21, amended: the same, except that the audio Prepare answered with
\* "Transcode already in progress" is one whose codec type is handled; an
\* audio Prepare with an unhandled codec type is refused before the installed
\* transcoder is looked at: process returns false, no response is written,
\* and the installed transcoder is unchanged.
C21_LifecycleHandledCodec ==
    [][ /\ InstalledOnlyByGoodPrepare
        /\ FailedPrepareInstallsNothing
        /\ OnlyTerminateRemoves
        /\ (transcoder # None /\ mediaRequest' # None
                /\ mediaRequest'[1] \in AudioPrepares)
               => IF HandledCodec(mediaRequest'[1])
                  THEN AnswersInProgress
                  ELSE /\ transcoder' = transcoder
                       /\ ~mediaResult'
                       /\ mediaResponse' = None ]_vars

\* A second transcoder was installed after a Terminate, it has buffered
\* output, and an audio Prepare has just been answered "Transcode already in
\* progress".
C21_Witness ==
    /\ sessions = MaxSessions
    /\ transcoder # None
    /\ transcoder[1].output # << >>
    /\ mediaRequest # None
    /\ mediaRequest[1] \in AudioPrepares
    /\ mediaResponse = Some(ErrorResponse("Transcode already in progress"))

\* The step is a GetPart received with a transcoder installed.
GetPartServed ==
    /\ transcoder # None
    /\ mediaRequest' # None
    /\ mediaRequest'[1] \in GetParts

\* The part returned by the step is no longer than the requested size and
\* than _maxPartSize.
PartWithinSize ==
    /\ mediaResponse'[1].type = "Part"
    /\ Len(mediaResponse'[1].data) <= mediaRequest'[1].requested_data_size
    /\ Len(mediaResponse'[1].data) <= MaxPartSize

\* The part returned, followed by what the buffer holds after the step, is
\* what the buffer held before followed by what the transcoder has output
\* during the step.
PartTakenFromFront ==
    /\ transcoder' # None
    /\ transcoder'[1].id = transcoder[1].id
    /\ transcoder'[1].produced >= transcoder[1].produced
    /\ mediaResponse'[1].data \o transcoder'[1].output
           = transcoder[1].output
               \o SubSeq(OutputStream(transcoder[1].track),
                         transcoder[1].produced + 1, transcoder'[1].produced)
    /\ sent' = sent \o mediaResponse'[1].data

\* The parts returned since the transcoder was installed, followed by the
\* buffer, are the bytes the transcoder has output so far.
NothingLostOrRepeated ==
    transcoder' # None =>
        /\ IsPrefix(sent', OutputStream(transcoder'[1].track))
        /\ sent' \o transcoder'[1].output
               = SubSeq(OutputStream(transcoder'[1].track), 1, transcoder'[1].produced)

\* C22: each GetPart returns at most min(requested_data_size, _maxPartSize)
\* bytes and removes exactly the returned bytes from the front of the
\* transcoder's output buffer; the concatenation of the returned parts is a
\* prefix of the transcoder's output in production order; a GetPart with no
\* transcoder installed answers an error response and changes no state.
C22_GetPartStreams ==
    [][ /\ GetPartServed => (PartWithinSize /\ PartTakenFromFront)
        /\ NothingLostOrRepeated
        /\ (transcoder = None /\ mediaRequest' # None
                /\ mediaRequest'[1] \in GetParts)
               => /\ mediaResponse' = Some(ErrorResponse("No transcoder set!"))
                  /\ transcoder' = None
                  /\ UNCHANGED << sessions, sent >> ]_vars

\* The whole output of track 1 has been returned, the last part being
\* shorter than what was returned before it, and the transcoder is complete.
C22_Witness ==
    /\ transcoder # None
    /\ transcoder[1].complete
    /\ sent = OutputStream(1)
    /\ mediaRequest # None
    /\ mediaRequest[1] \in GetParts
    /\ mediaResponse # None
    /\ mediaResponse[1].type = "Part"
    /\ mediaResponse[1].data # << >>
    /\ Len(mediaResponse[1].data) < Len(sent)

(* ------------------------ AuthTokenService claims --------------------- *)
\* The calls that presented the secret and returned Granted.
GrantedFor(secret) ==
    { c \in CallIds : calls[c].secret = secret /\ calls[c].result = "Granted" }

\* No created token has been granted to two calls.
AtMostOneGranted ==
    \A secret \in 1..generated : Cardinality(GrantedFor(secret)) <= 1

\* A call that found the token removed it, and once a call has found a
\* token no token of that secret is in the store.
FoundIsRemoved ==
    \A c \in CallIds :
        calls[c].found # "none" =>
            /\ calls[c].removed
            /\ getByValue(authTokens, Sha1(calls[c].secret)) = None

\* A call that found the token expired returns Denied.
ExpiredIsDenied ==
    \A c \in CallIds :
        (calls[c].found = "expired" /\ calls[c].pc = "done")
            => calls[c].result = "Denied"

\* C23: auth tokens are single use: for each token created by
\* createAuthToken, across any interleaving of concurrent processAuthToken
\* calls presenting its secret, at most one call returns Granted; the token
\* is removed from the store by the call that finds it; a token found
\* expired is removed and the call is Denied.
C23_SingleUse == AtMostOneGranted /\ FoundIsRemoved /\ ExpiredIsDenied

\* C24: a processAuthToken call that returns Throttled has not consumed the
\* presented token and has recorded neither a good nor a bad attempt.
C24_ThrottledNoEffect ==
    \A c \in CallIds :
        calls[c].result = "Throttled" =>
            /\ ~calls[c].removed
            /\ calls[c].recorded = "none"

==========================================================================
